---------------------------- MODULE Spec2Model ----------------------------
(***************************************************************************)
(* A model of rsurf: the 64-bit mask functions (bitops.rs), the growable   *)
(* bitmap (bitmap.rs), key truncation (key.rs), the LOUDS-DENSE builder    *)
(* (dense.rs), the trie iterator (iterator.rs) and the queries of Surf     *)
(* (surf.rs).                                                              *)
(*                                                                         *)
(* A u64 is modelled as the set of the exponents of its set bits: e is in  *)
(* the set iff bit 2^e of the word is 1.  Shifts, AND, OR and count_ones   *)
(* are computed on that set exactly as on the word, and bits shifted out   *)
(* of 0..63 are lost.                                                      *)
(***************************************************************************)
EXTENDS Integers, Sequences, FiniteSets, TLC

VARIABLES
    bm,         \* SpecBitmap: the Bitmap under test
    ones,       \* SpecBitmap: the bit indices whose last set/unset was a set
    last,       \* SpecBitmap: the last call and what it returned
    word,       \* SpecMasks: the word the last mask function returned
    phase,      \* Spec: "new" | "ready" | "failed" | "done"
    raw_keys,   \* Spec: the raw_keys argument of Surf::new
    new_keys,   \* Spec: the local `keys` of Surf::new, sorted and truncated
    options,    \* Spec: the Options argument of Surf::new
    surf,       \* Spec: the Surf (its three bitmaps)
    it,         \* Spec: the Iterator returned by the last lookup
    ret,        \* Spec: the last query and what it returned
    yielded     \* Spec: what Iterator::next returned on `it`, call by call

vars == <<bm, ones, last, word, phase, raw_keys, new_keys, options, surf, it, ret, yielded>>

(***************************************************************************)
(* Bounds of the model.                                                    *)
(***************************************************************************)
\* SpecBitmap: bit indices 0..MaxBit are tried.
MaxBit == 130
\* Spec: the keys built over and looked up have 1..MaxKeyLen bytes,
MaxKeyLen == 2
\* an index is built over at most MaxKeys of them,
MaxKeys == 3
\* and Iterator::next is called at most MaxNext times on one iterator.
MaxNext == 3
\* SpecMasks: the mask functions are called with 0..MaxMask.
MaxMask == 70
\* SpecBuild: Surf::new is given a list of at most MaxRawKeys keys.
MaxRawKeys == 3

(***************************************************************************)
(* bitops.rs                                                               *)
(***************************************************************************)
WordBits == 64
U64Max == 0 .. (WordBits - 1)

Min(a, b) == IF a < b THEN a ELSE b
Max(a, b) == IF a > b THEN a ELSE b
Clamp(n, lo, hi) == Max(lo, Min(n, hi))

\* w << k and w >> k on u64, for 0 <= k < 64
Shl(w, k) == {e + k : e \in w} \cap U64Max
Shr(w, k) == {e - k : e \in w} \cap U64Max

\* mask that shifts by 64 - n without the clamp
leading_ones_mask_unclamped(n) ==
    IF n = 0 THEN {} ELSE Shl(U64Max, 64 - n)

leading_ones_mask(n) ==
    LET c == Clamp(n, 0, 64)
    IN  IF c = 0 THEN {} ELSE Shl(U64Max, 64 - c)

trailing_ones_mask(n) ==
    LET c == Clamp(n, 0, 64)
    IN  IF c = 0 THEN {} ELSE Shr(U64Max, 64 - c)

ones_mask(leading, trailing) ==
    LET l == Clamp(leading, 0, 64)
        t == Clamp(trailing, 0, 64)
    IN  leading_ones_mask(l) \cup trailing_ones_mask(t)

single_one_mask_flipped(idx) == Shl({0}, Clamp(idx, 0, 63))

single_one_mask(idx) == Shr({63}, Clamp(idx, 0, 63))

\* `w as u8`: the low eight bits of the word, as a number
AsU8(w) ==
    LET b(e) == IF e \in w THEN 1 ELSE 0
    IN  b(0) + 2*b(1) + 4*b(2) + 8*b(3) + 16*b(4) + 32*b(5) + 64*b(6) + 128*b(7)

(***************************************************************************)
(* bitmap.rs                                                               *)
(***************************************************************************)
ErrInvalidIndex == "Invalid index. Must be in range [0, capacity - 1]"
ErrInvalidVal == "Val must be one of 0, 1"
ErrInvalidNth == "Nth must be in [1, length]"
ErrNotFound == "Bitmap only contained nth bits of value val"
ErrInvalidRankIndex == "Index must be in range [0, length - 1]"
NoErr == ""

\* Vec::resize(n, 0) on a sequence of words
\* resize that fills the new words with ones
VecResizeOnes(data, n) ==
    IF n <= Len(data) THEN SubSeq(data, 1, n)
    ELSE data \o [i \in 1 .. (n - Len(data)) |-> 0 .. 63]

VecResize(data, n) ==
    IF n <= Len(data) THEN SubSeq(data, 1, n)
    ELSE data \o [i \in 1 .. (n - Len(data)) |-> {}]

\* bitmap whose first words are all ones
BitmapNewOnes(size, capacity) ==
    LET data_size == (size + 63) \div 64
    IN  [capacity |-> capacity,
         length |-> data_size * 64,
         data |-> [i \in 1 .. data_size |-> 0 .. 63]]

BitmapNew(size, capacity) ==
    LET data_size == (size + 63) \div 64
    IN  [capacity |-> capacity,
         length |-> data_size * 64,
         data |-> VecResize(<<>>, data_size)]

BitmapResize(b, bit) ==
    IF bit < b.length THEN b
    ELSE LET bit2 == Min(bit, b.capacity)
             new_length == (bit2 + 63) \div 64
         IN  [b EXCEPT !.data = VecResize(b.data, new_length),
                       !.length = new_length * 64]

\* the `if bit >= self.length { self.resize(bit + 1) }` of set, unset and get
Grown(b, bit) == IF bit >= b.length THEN BitmapResize(b, bit + 1) ELSE b

\* each of set, unset, get returns [b: the bitmap after the call, err, val]
BitmapSetGrowsFirst(b, bit) ==
    LET g == Grown(b, bit)
    IN  IF bit >= b.capacity THEN [b |-> g, err |-> ErrInvalidIndex, val |-> 0]
        ELSE [b |-> [g EXCEPT !.data[(bit \div 64) + 1] =
                                 @ \cup single_one_mask(bit % 64)],
              err |-> NoErr, val |-> 0]

BitmapSet(b, bit) ==
    IF bit >= b.capacity THEN [b |-> b, err |-> ErrInvalidIndex, val |-> 0]
    ELSE LET g == Grown(b, bit)
             idx == bit \div 64
             offset == bit % 64
             mask == single_one_mask(offset)
         IN  [b |-> [g EXCEPT !.data[idx + 1] = @ \cup mask],
              err |-> NoErr, val |-> 0]

BitmapUnset(b, bit) ==
    IF bit >= b.capacity THEN [b |-> b, err |-> ErrInvalidIndex, val |-> 0]
    ELSE LET g == Grown(b, bit)
             idx == bit \div 64
             offset == bit % 64
             mask == ones_mask(offset, 64 - offset - 1)
         IN  [b |-> [g EXCEPT !.data[idx + 1] = @ \cap mask],
              err |-> NoErr, val |-> 0]

BitmapGet(b, bit) ==
    IF bit >= b.capacity THEN [b |-> b, err |-> ErrInvalidIndex, val |-> 0]
    ELSE LET g == Grown(b, bit)
             idx == bit \div 64
             offset == bit % 64
             mask == single_one_mask(offset)
         IN  [b |-> g, err |-> NoErr,
              val |-> AsU8(Shr(g.data[idx + 1] \cap mask, 64 - offset - 1))]

\* one pass of rank's loop: what the block that starts at bit i adds to count
RankBlock(b, check_ones, idx, i) ==
    LET full_block == i + 63 < idx
        ones_count ==
            IF full_block THEN Cardinality(b.data[(i \div 64) + 1])
            ELSE Cardinality(b.data[(i \div 64) + 1]
                                \cap leading_ones_mask(idx - i + 1))
    IN  IF check_ones THEN ones_count
        ELSE IF full_block THEN 64 - ones_count
        ELSE idx - i + 1 - ones_count

\* the passes for the blocks lo .. hi, summed by halves
RECURSIVE RankBlocks(_, _, _, _, _)
RankBlocks(b, check_ones, idx, lo, hi) ==
    IF lo > hi THEN 0
    ELSE IF lo = hi THEN RankBlock(b, check_ones, idx, 64 * lo)
    ELSE RankBlocks(b, check_ones, idx, lo, (lo + hi) \div 2)
         + RankBlocks(b, check_ones, idx, (lo + hi) \div 2 + 1, hi)

\* the blocks of rank's loop: i = from, from + 64, ... while i <= idx
RankFrom(b, check_ones, idx, i) ==
    RankBlocks(b, check_ones, idx, i \div 64, idx \div 64)

\* rank counting the positions before idx only
BitmapRankExclusive(b, val, idx) ==
    IF idx >= b.length THEN [err |-> ErrInvalidRankIndex, val |-> 0]
    ELSE IF val # 0 /\ val # 1 THEN [err |-> ErrInvalidVal, val |-> 0]
    ELSE [err |-> NoErr, val |-> RankFrom(b, val = 1, idx - 1, 0)]

\* rank returns [err, val]; it never changes the bitmap
BitmapRank(b, val, idx) ==
    IF idx >= b.length THEN [err |-> ErrInvalidRankIndex, val |-> 0]
    ELSE IF val # 0 /\ val # 1 THEN [err |-> ErrInvalidVal, val |-> 0]
    ELSE [err |-> NoErr, val |-> RankFrom(b, val = 1, idx, 0)]

\* the first while loop of select: whole words are skipped while the count
\* stays below nth; [count, idx] when it ends
RECURSIVE SelectSkip(_, _, _, _, _)
SelectSkip(b, check_ones, nth, count, idx) ==
    IF idx >= b.length THEN [count |-> count, idx |-> idx]
    ELSE LET ones_count == Cardinality(b.data[(idx \div 64) + 1])
             additional_count == IF check_ones THEN ones_count ELSE 64 - ones_count
         IN  IF count + additional_count >= nth THEN [count |-> count, idx |-> idx]
             ELSE SelectSkip(b, check_ones, nth, count + additional_count, idx + 64)

\* the second while loop of select: bit by bit with self.get(idx)?
RECURSIVE SelectScan(_, _, _, _, _)
SelectScan(b, check_ones, nth, count, idx) ==
    IF count >= nth THEN [b |-> b, err |-> NoErr, val |-> idx - 1]
    ELSE LET g == BitmapGet(b, idx)
         IN  IF g.err # NoErr THEN [b |-> g.b, err |-> g.err, val |-> 0]
             ELSE SelectScan(g.b, check_ones, nth,
                             IF (g.val = 1 /\ check_ones) \/ (g.val = 0 /\ ~check_ones)
                             THEN count + 1 ELSE count,
                             idx + 1)

\* select returns [b: the bitmap after the call, err, val]
BitmapSelect(b, val, nth) ==
    IF val # 0 /\ val # 1 THEN [b |-> b, err |-> ErrInvalidVal, val |-> 0]
    ELSE IF nth = 0 \/ nth > b.length THEN [b |-> b, err |-> ErrInvalidNth, val |-> 0]
    ELSE LET k == SelectSkip(b, val = 1, nth, 0, 0)
         IN  IF k.idx >= b.length THEN [b |-> b, err |-> ErrNotFound, val |-> 0]
             ELSE SelectScan(b, val = 1, nth, k.count, k.idx)

(***************************************************************************)
(* key.rs                                                                  *)
(***************************************************************************)
\* where a loop over the first n bytes of a and b meets its first differing
\* pair: the index (from 0) of that pair, n when the first n bytes agree
FirstDifferenceBelow(a, b, n) ==
    CHOOSE i \in 0 .. n : /\ i = n \/ a[i + 1] # b[i + 1]
                          /\ \A j \in 0 .. i - 1 : a[j + 1] = b[j + 1]

\* KeyOps::less: the first differing byte decides, else the shorter is less.
\* LessFrom is the loop at the first i (from 1) it does not pass over.
LessFrom(a, b, i) ==
    IF i > Min(Len(a), Len(b)) THEN Len(a) < Len(b)
    ELSE a[i] < b[i]

less(a, b) ==
    LessFrom(a, b, FirstDifferenceBelow(a, b, Min(Len(a), Len(b))) + 1)

\* first_difference_at returns [differ, at], at counted from 0
\* FirstDifferenceFrom is the loop at the first i (from 0) it does not pass over
FirstDifferenceFrom(a, b, i) ==
    LET n == Min(Len(a), Len(b))
    IN  IF i >= n
        THEN IF Len(a) = Len(b) THEN [differ |-> FALSE, at |-> 0]
             ELSE [differ |-> TRUE, at |-> n]
        ELSE [differ |-> TRUE, at |-> i]

first_difference_at(a, b) ==
    FirstDifferenceFrom(a, b, FirstDifferenceBelow(a, b, Min(Len(a), Len(b))))

\* truncate that looks at the key before only
TruncateOneBeforeOnly(keys, i) ==
    LET key == keys[i]
        before == IF i # 1 THEN first_difference_at(key, keys[i - 1])
                  ELSE [differ |-> TRUE, at |-> 0]
        n == IF ~before.differ THEN Len(key) ELSE before.at
    IN  SubSeq(key, 1, IF n < Len(key) THEN n + 1 ELSE n)

\* truncate that keeps every key whole
TruncateOneWhole(keys, i) == keys[i]

\* the prefix truncate keeps of keys[i] (i counted from 1)
TruncateOne(keys, i) ==
    LET key == keys[i]
        before == IF i # 1 THEN first_difference_at(key, keys[i - 1])
                  ELSE [differ |-> TRUE, at |-> 0]
        after == IF i # Len(keys) THEN first_difference_at(key, keys[i + 1])
                 ELSE [differ |-> TRUE, at |-> 0]
        first_difference_before == IF ~before.differ THEN Len(key) ELSE before.at
        first_difference_after == IF ~after.differ THEN Len(key) ELSE after.at
        n == IF first_difference_after > first_difference_before
             THEN first_difference_after ELSE first_difference_before
        n2 == IF n < Len(key) THEN n + 1 ELSE n
    IN  SubSeq(key, 1, n2)

truncate(keys) == [i \in 1 .. Len(keys) |-> TruncateOne(keys, i)]

\* Vec<u8>'s Ord, which keys.sort() and `<=` use: lexicographic
KeyLe(a, b) == a = b \/ less(a, b)

\* keys.sort(): insertion of each key into the sorted rest
RECURSIVE Insert(_, _)
Insert(sorted, k) ==
    IF sorted = <<>> THEN <<k>>
    ELSE IF KeyLe(k, Head(sorted)) THEN <<k>> \o sorted
    ELSE <<Head(sorted)>> \o Insert(Tail(sorted), k)

RECURSIVE SortKeys(_)
SortKeys(keys) ==
    IF keys = <<>> THEN <<>>
    ELSE Insert(SortKeys(Tail(keys)), Head(keys))

(***************************************************************************)
(* dense.rs: the Builder.  A builder is a record of its fields plus err,   *)
(* the error a `?` returned ("" while none has): once err is set the rest  *)
(* of build is skipped, as the early return does.  The result of a call is *)
(* handed on as a parameter to the operator that models the code after it. *)
(***************************************************************************)
NodeBits == 256

EmptyTask == [keys |-> <<>>, is_prefix_key |-> FALSE]
NoEdges == [node_has_edges |-> FALSE, most_recent_edge |-> 0]

\* builder that counts 512 bits per node, without the IsPrefixKey bit
BuilderNewNoPrefixBit(memory_limit) ==
    [labels |-> BitmapNew(256, 256 * (memory_limit \div (256 + 256))),
     has_child |-> BitmapNew(256, 256 * (memory_limit \div (256 + 256))),
     is_prefix_key |-> BitmapNew(1, memory_limit \div (256 + 256)),
     tasks |-> <<>>,
     current_task_id |-> 0,
     current_node_id |-> 0,
     err |-> NoErr]

BuilderNew(memory_limit) ==
    [labels |-> BitmapNew(256, 256 * (memory_limit \div (256 + 256 + 1))),
     has_child |-> BitmapNew(256, 256 * (memory_limit \div (256 + 256 + 1))),
     is_prefix_key |-> BitmapNew(1, memory_limit \div (256 + 256 + 1)),
     tasks |-> <<>>,
     current_task_id |-> 0,
     current_node_id |-> 0,
     err |-> NoErr]

label_offset(b) == b.current_node_id * NodeBits
has_child_offset(b) == b.current_node_id * NodeBits
\* the IsPrefixKey bit of the node after the current one
is_prefix_key_offset_next(b) == b.current_node_id + 1
is_prefix_key_offset(b) == b.current_node_id

append_node_task(b) ==
    [b EXCEPT !.tasks = Append(@, EmptyTask),
              !.current_task_id = Len(b.tasks)]

max_key_length(keys) ==
    IF keys = <<>> THEN 0
    ELSE CHOOSE m \in {Len(keys[i]) : i \in 1 .. Len(keys)} :
            \A i \in 1 .. Len(keys) : Len(keys[i]) <= m

\* after self.labels.set(bit)? = r: the new task; st is
\* [node_has_edges, most_recent_edge]; returns [b, st]
BuildNewEdge(b, edge, st, r) ==
    IF r.err # NoErr THEN [b |-> [b EXCEPT !.err = r.err], st |-> st]
    ELSE [b |-> [b EXCEPT !.labels = r.b,
                          !.tasks = Append(@, EmptyTask),
                          !.current_task_id = Len(b.tasks)],
          st |-> [node_has_edges |-> TRUE, most_recent_edge |-> edge]]

\* `if !node_has_edges || most_recent_edge != edge { ... }`
BuildEdge(b, edge, st) ==
    IF st.node_has_edges /\ st.most_recent_edge = edge THEN [b |-> b, st |-> st]
    ELSE BuildNewEdge(b, edge, st, BitmapSet(b.labels, label_offset(b) + edge))

\* build that passes the key on without keeping the HasChild bit
BuildHasChildUnset(e, key, r) ==
    IF r.err # NoErr THEN [b |-> [e.b EXCEPT !.err = r.err], st |-> e.st]
    ELSE [b |-> [e.b EXCEPT !.tasks[e.b.current_task_id + 1].keys = Append(@, key)],
          st |-> e.st]

\* after self.has_child.set(bit)? = r: the key goes to the task being defined
BuildHasChild(e, key, r) ==
    IF r.err # NoErr THEN [b |-> [e.b EXCEPT !.err = r.err], st |-> e.st]
    ELSE [b |-> [e.b EXCEPT !.has_child = r.b,
                            !.tasks[e.b.current_task_id + 1].keys = Append(@, key)],
          st |-> e.st]

\* `if depth == key.len() - 1 { ... } else { ... }`, e the result of BuildEdge
BuildKeyEnd(e, key, depth) ==
    IF e.b.err # NoErr THEN e
    ELSE IF depth = Len(key) - 1
    THEN [b |-> [e.b EXCEPT !.tasks[e.b.current_task_id + 1].is_prefix_key = TRUE],
          st |-> e.st]
    ELSE BuildHasChild(e, key,
             BitmapSet(e.b.has_child, has_child_offset(e.b) + key[depth + 1]))

\* one pass of `for key in &task.keys`
BuildKey(b, key, depth, st) == BuildKeyEnd(BuildEdge(b, key[depth + 1], st), key, depth)

\* `for key in &task.keys`, from key k (counted from 1)
RECURSIVE BuildKeys(_, _, _, _, _)
BuildKeysRest(r, keys, k, depth) == BuildKeys(r.b, keys, k + 1, depth, r.st)

BuildKeys(b, keys, k, depth, st) ==
    IF k > Len(keys) \/ b.err # NoErr THEN b
    ELSE BuildKeysRest(BuildKey(b, keys[k], depth, st), keys, k, depth)

\* `if task.is_prefix_key { self.is_prefix_key.set(bit)?; }`, g3 the get before it
BuildTouchSet(b, task, g3) ==
    IF g3.err # NoErr THEN [b EXCEPT !.err = g3.err]
    ELSE IF ~task.is_prefix_key THEN [b EXCEPT !.is_prefix_key = g3.b]
    ELSE [b EXCEPT !.is_prefix_key = BitmapSet(g3.b, is_prefix_key_offset(b)).b,
                   !.err = BitmapSet(g3.b, is_prefix_key_offset(b)).err]

\* self.has_child.get(self.has_child_offset() + 255)? = g2, then the get of
\* is_prefix_key
BuildTouchPrefix(b, task, g2) ==
    IF g2.err # NoErr THEN [b EXCEPT !.err = g2.err]
    ELSE BuildTouchSet([b EXCEPT !.has_child = g2.b], task,
                       BitmapGet(b.is_prefix_key, is_prefix_key_offset(b)))

\* self.labels.get(self.label_offset() + 255)? = g1, then the get of has_child
BuildTouchChild(b, task, g1) ==
    IF g1.err # NoErr THEN [b EXCEPT !.err = g1.err]
    ELSE BuildTouchPrefix([b EXCEPT !.labels = g1.b], task,
                          BitmapGet(b.has_child, has_child_offset(b) + 255))

\* build that leaves the node's extents to the set calls that follow
BuildTouchSetOnly(b, task) ==
    IF ~task.is_prefix_key THEN b
    ELSE [b EXCEPT !.is_prefix_key = BitmapSet(b.is_prefix_key, is_prefix_key_offset(b)).b,
                   !.err = BitmapSet(b.is_prefix_key, is_prefix_key_offset(b)).err]

\* the three get calls that allocate the node's extents, and the
\* is_prefix_key.set of a task whose flag is set
BuildTouch(b, task) ==
    BuildTouchChild(b, task, BitmapGet(b.labels, label_offset(b) + 255))

\* `self.current_node_id += 1` after the keys of a node
BuildNodeEnd(k) == IF k.err # NoErr THEN k ELSE [k EXCEPT !.current_node_id = @ + 1]

\* the keys of a task, t the builder after the extents were touched
BuildNode(t, keys, depth) ==
    IF t.err # NoErr THEN t
    ELSE BuildNodeEnd(BuildKeys(t, keys, 1, depth, NoEdges))

\* build in which a task without keys takes a node id as well
BuildTaskCountsEmpty(b, i, depth) ==
    IF b.tasks[i + 1].keys = <<>> THEN [b EXCEPT !.current_node_id = @ + 1]
    ELSE BuildNode(BuildTouch(b, b.tasks[i + 1]), b.tasks[i + 1].keys, depth)

\* the body of `for i in 0..n` for task i (counted from 0)
BuildTask(b, i, depth) ==
    IF b.tasks[i + 1].keys = <<>> THEN b
    ELSE BuildNode(BuildTouch(b, b.tasks[i + 1]), b.tasks[i + 1].keys, depth)

RECURSIVE BuildTasks(_, _, _, _)
BuildTasks(b, i, n, depth) ==
    IF i >= n \/ b.err # NoErr THEN b
    ELSE BuildTasks(BuildTask(b, i, depth), i + 1, n, depth)

\* the drain(..n) that ends a level; a task's Err has returned before it
BuildLevelEnd(d, n) ==
    IF d.err # NoErr THEN d
    ELSE [d EXCEPT !.tasks = SubSeq(@, n + 1, Len(@))]

\* one pass of `for depth in 0..max_key_length(keys)`
BuildLevel(b, depth) ==
    BuildLevelEnd(BuildTasks(b, 0, Len(b.tasks), depth), Len(b.tasks))

\* the passes depth .. max_depth - 1 in order, taken by halves; an Err ends them
RECURSIVE BuildLevels(_, _, _)
BuildLevels(b, depth, max_depth) ==
    IF depth >= max_depth \/ b.err # NoErr THEN b
    ELSE IF depth + 1 = max_depth THEN BuildLevel(b, depth)
    ELSE BuildLevels(BuildLevels(b, depth, (depth + max_depth) \div 2),
                     (depth + max_depth) \div 2, max_depth)

\* `current_task.keys = keys.to_vec()` on the task append_node_task added
BuildRoot(a, keys) == [a EXCEPT !.tasks[a.current_task_id + 1].keys = keys]

\* Builder::build: the builder after the call; err is the Err it returned
BuilderBuild(b, keys) ==
    BuildLevels(BuildRoot(append_node_task(b), keys), 0, max_key_length(keys))

(***************************************************************************)
(* iterator.rs.  A SurfError is [kind, msg]; ErrNone stands for Ok.        *)
(***************************************************************************)
ErrNone == [kind |-> "None", msg |-> ""]
NoSuchEdge == [kind |-> "NoSuchEdge", msg |-> ""]
IsLeaf == [kind |-> "IsLeaf", msg |-> ""]
EndOfTrie == [kind |-> "EndOfTrie", msg |-> ""]
Panic == [kind |-> "Panic", msg |-> "called Option::unwrap() on a None value"]
CustomError(s) == [kind |-> "CustomError", msg |-> s]

\* impl From<&'static str> for SurfError
FromStr(s) == CustomError(s)

\* impl Display for SurfError: what e.to_string() gives
to_string(e) ==
    CASE e.kind = "NoSuchEdge" -> "No such edge"
      [] e.kind = "IsLeaf" -> "Is leaf"
      [] e.kind = "EndOfTrie" -> "Reached end of trie"
      [] OTHER -> e.msg

\* the strings Iterator::next compares e.to_string() with
NextNoSuchEdgeText == "Cannot move to non-existent edge"
NextIsLeafText == "Cannot move to leaf node"

\* move that numbers the child by the set bits before the edge only
GoToChildMoveExclusive(i, edge, rk) ==
    IF rk.err # NoErr THEN [it |-> i, err |-> FromStr(rk.err)]
    ELSE [it |-> [i EXCEPT !.key_prefix = Append(@, i.next_edge % 256),
                           !.nodes = Append(@, i.node_index),
                           !.edges = Append(@, edge),
                           !.node_index = rk.val - 1,
                           !.next_edge = 0],
          err |-> ErrNone]

\* go_to_child returns [it: the iterator after the call, err].
\* After `self.has_child.rank(1, offset)?` = rk: the push and the move
GoToChildMove(i, edge, rk) ==
    IF rk.err # NoErr THEN [it |-> i, err |-> FromStr(rk.err)]
    ELSE [it |-> [i EXCEPT !.key_prefix = Append(@, i.next_edge % 256),
                           !.nodes = Append(@, i.node_index),
                           !.edges = Append(@, edge),
                           !.node_index = rk.val,
                           !.next_edge = 0],
          err |-> ErrNone]

\* after `self.has_child.get(offset)?` = g2
GoToChildHasChild(i, edge, offset, g2) ==
    IF g2.err # NoErr THEN [it |-> i, err |-> FromStr(g2.err)]
    ELSE IF g2.val # 1 THEN [it |-> [i EXCEPT !.has_child = g2.b], err |-> IsLeaf]
    ELSE GoToChildMove([i EXCEPT !.has_child = g2.b], edge,
                       BitmapRank(g2.b, 1, offset))

\* after `self.labels.get(offset)?` = g1
GoToChildLabel(i, edge, offset, g1) ==
    IF g1.err # NoErr THEN [it |-> i, err |-> FromStr(g1.err)]
    ELSE IF g1.val # 1 THEN [it |-> [i EXCEPT !.labels = g1.b], err |-> NoSuchEdge]
    ELSE GoToChildHasChild([i EXCEPT !.labels = g1.b], edge, offset,
                           BitmapGet(i.has_child, offset))

go_to_child(i, edge) ==
    GoToChildLabel([i EXCEPT !.next_edge = edge], edge,
                   256 * i.node_index + edge,
                   BitmapGet(i.labels, 256 * i.node_index + edge))

\* `for _ in self.next_edge..256`: the range is fixed when the loop starts, so
\* `remaining` passes are left.  A pass and the loop return
\* [returned, it, err, key]: returned is FALSE while no pass has returned, and
\* FALSE of the loop when it ran out without a return.

\* the Ok arm, g = self.is_prefix_key.get(self.node_index)
NextForOk(i, g) ==
    IF g.err # NoErr
    THEN [returned |-> TRUE, it |-> i, err |-> FromStr(g.err), key |-> <<>>]
    ELSE IF g.val = 1
    THEN [returned |-> TRUE, it |-> [i EXCEPT !.is_prefix_key = g.b],
          err |-> ErrNone, key |-> i.key_prefix]
    ELSE [returned |-> FALSE, it |-> [i EXCEPT !.is_prefix_key = g.b],
          err |-> ErrNone, key |-> <<>>]

\* `match self.go_to_child(self.next_edge as u8)`, r what it returned
NextForMatch(r) ==
    IF r.err = ErrNone
    THEN NextForOk(r.it, BitmapGet(r.it.is_prefix_key, r.it.node_index))
    ELSE IF to_string(r.err) = NextNoSuchEdgeText
    THEN [returned |-> FALSE, it |-> r.it, err |-> ErrNone, key |-> <<>>]
    ELSE IF to_string(r.err) = NextIsLeafText
    THEN [returned |-> TRUE,
          it |-> [r.it EXCEPT !.next_edge = @ + 1],
          err |-> ErrNone,
          key |-> Append(r.it.key_prefix, r.it.next_edge % 256)]
    ELSE [returned |-> TRUE, it |-> r.it, err |-> r.err, key |-> <<>>]

\* one pass of the for loop on the iterator f.it, unless a pass has returned
NextForPass(f) ==
    IF f.returned THEN f
    ELSE NextForMatch(go_to_child(f.it, f.it.next_edge % 256))

\* `remaining` passes in order, taken by halves; a return ends them
RECURSIVE NextForPasses(_, _)
NextForPasses(f, remaining) ==
    IF remaining = 0 \/ f.returned THEN f
    ELSE IF remaining = 1 THEN NextForPass(f)
    ELSE NextForPasses(NextForPasses(f, remaining \div 2),
                       remaining - remaining \div 2)

NextFor(i, remaining) ==
    NextForPasses([returned |-> FALSE, it |-> i, err |-> ErrNone, key |-> <<>>],
                  remaining)

\* `self.node_index = self.nodes.pop_back().unwrap()`: what the iterator holds
\* when the unwrap of edges.pop_back() that follows panics
NextPopNode(i) ==
    [i EXCEPT !.node_index = i.nodes[Len(i.nodes)],
              !.nodes = SubSeq(@, 1, Len(@) - 1)]

\* pop that leaves key_prefix as it was
NextPopKeepsPrefix(i) ==
    [i EXCEPT !.node_index = i.nodes[Len(i.nodes)],
              !.nodes = SubSeq(@, 1, Len(@) - 1),
              !.next_edge = i.edges[Len(i.edges)] + 1,
              !.edges = SubSeq(@, 1, Len(@) - 1)]

\* the else arm after the for loop: back to the parent node
NextPop(i) ==
    [i EXCEPT !.node_index = i.nodes[Len(i.nodes)],
              !.nodes = SubSeq(@, 1, Len(@) - 1),
              !.next_edge = i.edges[Len(i.edges)] + 1,
              !.edges = SubSeq(@, 1, Len(@) - 1),
              !.key_prefix = SubSeq(@, 1, Max(Len(@), 1) - 1)]

\* Iterator::next returns [it, err, key]: Ok(key) when err = ErrNone
RECURSIVE IteratorNext(_)

\* next that starts over at edge 0 of the root once it has reported the end
NextAfterForRestarts(f) ==
    IF f.returned THEN [it |-> f.it, err |-> f.err, key |-> f.key]
    ELSE IF f.it.node_index = 0
    THEN [it |-> [f.it EXCEPT !.next_edge = 0], err |-> EndOfTrie, key |-> <<>>]
    ELSE IF f.it.nodes = <<>>
    THEN [it |-> f.it, err |-> Panic, key |-> <<>>]
    ELSE IF f.it.edges = <<>>
    THEN [it |-> NextPopNode(f.it), err |-> Panic, key |-> <<>>]
    ELSE IteratorNext(NextPop(f.it))

\* after the for loop, f what it left
NextAfterFor(f) ==
    IF f.returned THEN [it |-> f.it, err |-> f.err, key |-> f.key]
    ELSE IF f.it.node_index = 0
    THEN [it |-> f.it, err |-> EndOfTrie, key |-> <<>>]
    ELSE IF f.it.nodes = <<>>
    THEN [it |-> f.it, err |-> Panic, key |-> <<>>]
    ELSE IF f.it.edges = <<>>
    THEN [it |-> NextPopNode(f.it), err |-> Panic, key |-> <<>>]
    ELSE IteratorNext(NextPop(f.it))

IteratorNext(i) ==
    NextAfterFor(NextFor(i, IF i.next_edge < 256 THEN 256 - i.next_edge ELSE 0))

(***************************************************************************)
(* options.rs and surf.rs                                                  *)
(***************************************************************************)
DefaultMemoryLimit == 256000000
OptionsNew == [r |-> 64, hash_bits |-> 4, real_bits |-> 4,
               memory_limit |-> DefaultMemoryLimit]

\* format!("Error accessing bit in D-IsPrefixKey: {}", e) for the one error get returns
ErrPrefixKeyAccess ==
    "Error accessing bit in D-IsPrefixKey: Invalid index. Must be in range [0, capacity - 1]"

\* `dense_builder.build(&keys)?` and the Ok(Surf { .. }) after it: [err, surf]
SurfOfBuilder(b) ==
    [err |-> IF b.err # NoErr THEN FromStr(b.err) ELSE ErrNone,
     surf |-> [dense_labels |-> b.labels,
               dense_has_child |-> b.has_child,
               dense_is_prefix_key |-> b.is_prefix_key]]

\* Surf::new returns [err, surf]: Ok(surf) when err = ErrNone
\* `keys.sort(); keys = truncate(&keys);`: what Builder::build is given
SurfNewKeys(raw) == truncate(SortKeys(raw))

SurfNew(raw, opts) ==
    SurfOfBuilder(BuilderBuild(BuilderNew(opts.memory_limit),
                               truncate(SortKeys(raw))))

\* the Iterator { .. } that lookup starts with
NewIterator(s) ==
    [labels |-> s.dense_labels,
     has_child |-> s.dense_has_child,
     is_prefix_key |-> s.dense_is_prefix_key,
     node_index |-> 0, nodes |-> <<>>, next_edge |-> 0,
     edges |-> <<>>, key_prefix |-> <<>>]

\* the `for i in 0..key.len()` of lookup, from byte n (counted from 0):
\* [returned, exists, matched, it, err]
RECURSIVE LookupWalk(_, _, _)

\* lookup with the IsLeaf arm answering absent
LookupMatchLeafIsMiss(r, key, n) ==
    IF r.err = ErrNone THEN LookupWalk(r.it, key, n + 1)
    ELSE IF r.err = NoSuchEdge \/ r.err = IsLeaf
    THEN [returned |-> TRUE, exists |-> FALSE, matched |-> <<>>,
          it |-> r.it, err |-> ErrNone]
    ELSE [returned |-> TRUE, exists |-> FALSE, matched |-> <<>>,
          it |-> r.it, err |-> r.err]

\* `match it.go_to_child(key_byte)`, r what it returned
LookupMatch(r, key, n) ==
    IF r.err = ErrNone THEN LookupWalk(r.it, key, n + 1)
    ELSE IF r.err = NoSuchEdge
    THEN [returned |-> TRUE, exists |-> FALSE, matched |-> <<>>,
          it |-> r.it, err |-> ErrNone]
    ELSE IF r.err = IsLeaf
    THEN [returned |-> TRUE, exists |-> TRUE,
          matched |-> SubSeq(key, 1, n + 1), it |-> r.it, err |-> ErrNone]
    ELSE [returned |-> TRUE, exists |-> FALSE, matched |-> <<>>,
          it |-> r.it, err |-> r.err]

LookupWalk(i, key, n) ==
    IF n >= Len(key)
    THEN [returned |-> FALSE, exists |-> FALSE, matched |-> <<>>, it |-> i,
          err |-> ErrNone]
    ELSE LookupMatch(go_to_child(i, key[n + 1]), key, n)

\* lookup that answers found after a full traversal whatever the
\* IsPrefixKey bit of the node it ends on
LookupEndAnyNode(s, key, w, g) ==
    IF w.returned
    THEN [exists |-> w.exists, matched |-> w.matched, it |-> w.it,
          err |-> w.err, surf |-> s]
    ELSE [exists |-> TRUE, matched |-> key, it |-> w.it, err |-> ErrNone,
          surf |-> s]

\* after the for loop: w what it left, g = self.dense_is_prefix_key.get(it.node_index)
\* Surf::lookup returns [exists, matched, it, err, surf]; surf is self after
\* the call (get takes &mut self)
LookupEnd(s, key, w, g) ==
    IF w.returned
    THEN [exists |-> w.exists, matched |-> w.matched, it |-> w.it,
          err |-> w.err, surf |-> s]
    ELSE IF g.err # NoErr
    THEN [exists |-> FALSE, matched |-> <<>>, it |-> w.it,
          err |-> CustomError(ErrPrefixKeyAccess), surf |-> s]
    ELSE IF g.val = 1
    THEN [exists |-> TRUE, matched |-> key, it |-> w.it, err |-> ErrNone,
          surf |-> [s EXCEPT !.dense_is_prefix_key = g.b]]
    ELSE [exists |-> FALSE, matched |-> <<>>, it |-> w.it, err |-> ErrNone,
          surf |-> [s EXCEPT !.dense_is_prefix_key = g.b]]

LookupPrefixKey(s, key, w) ==
    LookupEnd(s, key, w, BitmapGet(s.dense_is_prefix_key, w.it.node_index))

SurfLookup(s, key) == LookupPrefixKey(s, key, LookupWalk(NewIterator(s), key, 0))

\* the miss arm of lookup_or_greater, n what it.next() returned
LookupOrGreaterNext(l, n) ==
    IF n.err = ErrNone
    THEN [key |-> n.key, it |-> n.it, err |-> ErrNone, surf |-> l.surf]
    ELSE [key |-> <<>>, it |-> n.it, err |-> n.err, surf |-> l.surf]

\* `if exists { .. } else { .. }`, l what self.lookup(key) returned
LookupOrGreaterMatch(l) ==
    IF l.exists
    THEN [key |-> l.matched, it |-> [l.it EXCEPT !.next_edge = @ + 1],
          err |-> ErrNone, surf |-> l.surf]
    ELSE LookupOrGreaterNext(l, IteratorNext(l.it))

\* Surf::lookup_or_greater returns [key, it, err, surf]
SurfLookupOrGreater(s, key) == LookupOrGreaterMatch(SurfLookup(s, key))

\* `if matched_key <= high`, g what lookup_or_greater returned
RangeLookupCompare(g, high) == [val |-> KeyLe(g.key, high), surf |-> g.surf]

\* Surf::range_lookup returns [val, surf]
SurfRangeLookup(s, low, high) == RangeLookupCompare(SurfLookupOrGreater(s, low), high)

\* the while loop of count: the count it ends with
RECURSIVE CountLoop(_, _, _, _)

\* `match it.next()`, n what it returned; count already counts cur_key
CountMatch(n, high_key, count) ==
    IF n.err = ErrNone THEN CountLoop(n.it, n.key, high_key, count) ELSE count

CountLoop(i, cur_key, high_key, count) ==
    IF ~KeyLe(cur_key, high_key) THEN count
    ELSE CountMatch(IteratorNext(i), high_key, count + 1)

CountFrom(g, high) == [val |-> CountLoop(g.it, g.key, high, 0), surf |-> g.surf]

\* Surf::count returns [val, surf]
SurfCount(s, low, high) == CountFrom(SurfLookupOrGreater(s, low), high)

(***************************************************************************)
(* SpecBitmap: a Bitmap under any sequence of set, unset and get calls.    *)
(***************************************************************************)
BitSizes == {0, 1, 64}
BitCapacities == {10, 64, 129}
BitIndices == {i \in 0 .. MaxBit : i % 64 \in {0, 1, 63}}
\* the val of rank and select: 0, 1 and a value that is neither
BitVals == {0, 1, 2}
\* SpecRank: the bits set and unset, idx of rank and nth of select: at the
\* ends of the words, and nth also at 0 and just past a capacity
RankBits == {i \in 0 .. MaxBit : i % 64 \in {0, 63}}
RankIndices == {i \in 0 .. MaxBit : i % 64 \in {1, 63}}
SelectCounts == {n \in 0 .. MaxBit : n % 64 \in {0, 1, 2, 11}}

NoCall == [op |-> "new", v |-> 0, bit |-> 0, err |-> NoErr, val |-> 0]
NoSurf == [dense_labels |-> BitmapNew(0, 0),
           dense_has_child |-> BitmapNew(0, 0),
           dense_is_prefix_key |-> BitmapNew(0, 0)]
NoIterator == [labels |-> BitmapNew(0, 0),
               has_child |-> BitmapNew(0, 0),
               is_prefix_key |-> BitmapNew(0, 0),
               node_index |-> 0, nodes |-> <<>>, next_edge |-> 0,
               edges |-> <<>>, key_prefix |-> <<>>]
NoRet == [op |-> "none", low |-> <<>>, high |-> <<>>, found |-> FALSE,
          key |-> <<>>, err |-> [kind |-> "None", msg |-> ""], count |-> 0]

\* the variables of Spec, which SpecBitmap leaves alone
SurfIdle ==
    /\ phase = "idle"
    /\ raw_keys = <<>>
    /\ new_keys = <<>>
    /\ options = [memory_limit |-> 0]
    /\ surf = NoSurf
    /\ it = NoIterator
    /\ ret = NoRet
    /\ yielded = <<>>

surfVars == <<phase, raw_keys, new_keys, options, surf, it, ret, yielded>>
bitmapVars == <<bm, ones, last, word>>

InitBitmap ==
    /\ \E size \in BitSizes, capacity \in BitCapacities :
          bm = BitmapNew(size, capacity)
    /\ ones = {}
    /\ last = NoCall
    /\ word = {}
    /\ SurfIdle

Set(bit) ==
    LET r == BitmapSet(bm, bit)
    IN  /\ bm' = r.b
        /\ ones' = IF r.err = NoErr THEN ones \cup {bit} ELSE ones
        /\ last' = [op |-> "set", v |-> 0, bit |-> bit, err |-> r.err, val |-> r.val]
        /\ UNCHANGED <<word, surfVars>>

Unset(bit) ==
    LET r == BitmapUnset(bm, bit)
    IN  /\ bm' = r.b
        /\ ones' = IF r.err = NoErr THEN ones \ {bit} ELSE ones
        /\ last' = [op |-> "unset", v |-> 0, bit |-> bit, err |-> r.err, val |-> r.val]
        /\ UNCHANGED <<word, surfVars>>

Get(bit) ==
    LET r == BitmapGet(bm, bit)
    IN  /\ bm' = r.b
        /\ last' = [op |-> "get", v |-> 0, bit |-> bit, err |-> r.err, val |-> r.val]
        /\ UNCHANGED <<ones, word, surfVars>>

\* rank(val, idx); last.bit holds idx
Rank(val, idx) ==
    LET r == BitmapRank(bm, val, idx)
    IN  /\ last' = [op |-> "rank", v |-> val, bit |-> idx, err |-> r.err,
                     val |-> r.val]
        /\ UNCHANGED <<bm, ones, word, surfVars>>

\* select(val, nth); last.bit holds nth
Select(val, nth) ==
    LET r == BitmapSelect(bm, val, nth)
    IN  /\ bm' = r.b
        /\ last' = [op |-> "select", v |-> val, bit |-> nth, err |-> r.err,
                     val |-> r.val]
        /\ UNCHANGED <<ones, word, surfVars>>

NextBitmap ==
    \/ \E bit \in BitIndices : Set(bit)
    \/ \E bit \in BitIndices : Unset(bit)
    \/ \E bit \in BitIndices : Get(bit)

SpecBitmap == InitBitmap /\ [][NextBitmap]_vars

(***************************************************************************)
(* SpecMasks: the mask functions of bitops.rs called with u32 arguments:   *)
(* 0..MaxMask and one far above 64.  last holds the function and its       *)
(* arguments (bit, and v for the second of ones_mask), word the result.    *)
(***************************************************************************)
MaskArgs == (0 .. MaxMask) \cup {2147483647}
OnesMaskArgs == {n \in MaskArgs : n % 32 \in {0, 1, 6, 31}}

MaskCall(op, a, b) == [op |-> op, v |-> b, bit |-> a, err |-> NoErr, val |-> 0]

LeadingOnesMask(n) ==
    /\ word' = leading_ones_mask(n)
    /\ last' = MaskCall("leading_ones_mask", n, 0)
    /\ UNCHANGED <<bm, ones, surfVars>>

TrailingOnesMask(n) ==
    /\ word' = trailing_ones_mask(n)
    /\ last' = MaskCall("trailing_ones_mask", n, 0)
    /\ UNCHANGED <<bm, ones, surfVars>>

OnesMask(leading, trailing) ==
    /\ word' = ones_mask(leading, trailing)
    /\ last' = MaskCall("ones_mask", leading, trailing)
    /\ UNCHANGED <<bm, ones, surfVars>>

SingleOneMask(idx) ==
    /\ word' = single_one_mask(idx)
    /\ last' = MaskCall("single_one_mask", idx, 0)
    /\ UNCHANGED <<bm, ones, surfVars>>

InitMasks ==
    /\ bm = BitmapNew(0, 0)
    /\ ones = {}
    /\ last = NoCall
    /\ word = {}
    /\ SurfIdle

NextMasks ==
    \/ \E n \in MaskArgs : LeadingOnesMask(n)
    \/ \E n \in MaskArgs : TrailingOnesMask(n)
    \/ \E leading \in OnesMaskArgs, trailing \in OnesMaskArgs :
          OnesMask(leading, trailing)
    \/ \E idx \in MaskArgs : SingleOneMask(idx)

SpecMasks == InitMasks /\ [][NextMasks]_vars

(***************************************************************************)
(* SpecRank: rank and select on the bitmaps that set and unset build.      *)
(***************************************************************************)
NextRank ==
    \/ \E bit \in RankBits : Set(bit)
    \/ \E bit \in RankBits : Unset(bit)
    \/ \E val \in BitVals, idx \in RankIndices : Rank(val, idx)
    \/ \E val \in BitVals, nth \in SelectCounts : Select(val, nth)

SpecRank == InitBitmap /\ [][NextRank]_vars

(***************************************************************************)
(* Spec: a Surf built over a set of keys, then queried.                    *)
(*   new --SurfNewCall--> ready --query--> done --Next*--> done --Drop-->  *)
(*   ready.  A query's result stays in ret (and the iterator a lookup      *)
(*   returned in it) until the caller drops them.                          *)
(***************************************************************************)
Bytes == {0, 255}
KeysOfLen(n) == [1 .. n -> Bytes]
Keys == UNION {KeysOfLen(n) : n \in 1 .. MaxKeyLen}

\* the keys of test_lookup (surf.rs) and of test_build_two_levels (dense.rs)
TestLookupKeys == << <<0, 1>>, <<0, 1, 2>>, <<66>>, <<255, 66, 112, 113>> >>
TwoLevelKeys == << <<97, 105>>, <<97, 111>>, <<102>>, <<102, 97>>, <<102, 101>> >>
\* the five one-byte keys of test_build_one_level (dense.rs)
OneLevelKeys == << <<0>>, <<23>>, <<66>>, <<96>>, <<249>> >>
\* "far", "fast", "john": the example of truncate (key.rs)
TruncateKeys == << <<102, 97, 114>>, <<102, 97, 115, 116>>, <<106, 111, 104, 110>> >>
\* "a", "b", "fb", and the two absent keys of test_lookup
TestQueries == { <<97>>, <<98>>, <<102, 98>>, <<0, 2>>, <<67>> }

Range(seq) == {seq[i] : i \in 1 .. Len(seq)}

\* the keys of a set, largest first: an unsorted list of distinct keys
RECURSIVE Descending(_)
Descending(S) ==
    IF S = {} THEN <<>>
    ELSE LET m == CHOOSE k \in S : \A o \in S : KeyLe(o, k)
         IN  <<m>> \o Descending(S \ {m})

RawKeyLists ==
    {Descending(S) : S \in {T \in SUBSET Keys : Cardinality(T) <= MaxKeys}}
        \cup {TestLookupKeys, TwoLevelKeys, TruncateKeys, OneLevelKeys}

\* the keys of test_lookup and of the two-level test are queried with the
\* test's own probes as well; every other index with every key and <<>>
IsTestList(list) ==
    list \in {TestLookupKeys, TwoLevelKeys, TruncateKeys, OneLevelKeys}
QueryKeys(keys) ==
    Keys \cup {<<>>}
         \cup (IF IsTestList(keys) THEN Range(keys) \cup TestQueries ELSE {})
RangeKeys(keys) ==
    Keys \cup {<<>>}
         \cup (IF keys \in {TestLookupKeys, TwoLevelKeys} THEN TestQueries ELSE {})

BitmapIdle ==
    /\ bm = BitmapNew(0, 0)
    /\ ones = {}
    /\ last = NoCall
    /\ word = {}

Ret(op, low, high, found, key, err, count) ==
    [op |-> op, low |-> low, high |-> high, found |-> found, key |-> key,
     err |-> err, count |-> count]

Init ==
    /\ phase = "new"
    /\ raw_keys \in RawKeyLists
    /\ new_keys = <<>>
    /\ options = OptionsNew
    /\ surf = NoSurf
    /\ it = NoIterator
    /\ ret = NoRet
    /\ yielded = <<>>
    /\ BitmapIdle

SurfNewCall ==
    /\ phase = "new"
    /\ \E r \in {SurfNew(raw_keys, options)} :
           /\ phase' = IF r.err = ErrNone THEN "ready" ELSE "failed"
           /\ surf' = IF r.err = ErrNone THEN r.surf ELSE NoSurf
           /\ ret' = Ret("new", <<>>, <<>>, r.err = ErrNone, <<>>, r.err, 0)
    /\ new_keys' = SurfNewKeys(raw_keys)
    /\ UNCHANGED <<raw_keys, options, it, yielded, bitmapVars>>

Lookup(key) ==
    /\ phase = "ready"
    /\ \E r \in {SurfLookup(surf, key)} :
           /\ surf' = r.surf
           /\ it' = r.it
           /\ ret' = Ret("lookup", key, <<>>, r.exists, r.matched, r.err, 0)
    /\ phase' = "done"
    /\ yielded' = <<>>
    /\ UNCHANGED <<raw_keys, new_keys, options, bitmapVars>>

LookupOrGreater(key) ==
    /\ phase = "ready"
    /\ \E r \in {SurfLookupOrGreater(surf, key)} :
           /\ surf' = r.surf
           /\ it' = r.it
           /\ ret' = Ret("lookup_or_greater", key, <<>>, r.err = ErrNone, r.key,
                         r.err, 0)
    /\ phase' = "done"
    /\ yielded' = <<>>
    /\ UNCHANGED <<raw_keys, new_keys, options, bitmapVars>>

RangeLookup(low, high) ==
    /\ phase = "ready"
    /\ KeyLe(low, high)
    /\ \E r \in {SurfRangeLookup(surf, low, high)} :
           /\ surf' = r.surf
           /\ ret' = Ret("range_lookup", low, high, r.val, <<>>, ErrNone, 0)
    /\ phase' = "done"
    /\ it' = NoIterator
    /\ yielded' = <<>>
    /\ UNCHANGED <<raw_keys, new_keys, options, bitmapVars>>

Count(low, high) ==
    /\ phase = "ready"
    /\ KeyLe(low, high)
    /\ \E r \in {SurfCount(surf, low, high)} :
           /\ surf' = r.surf
           /\ ret' = Ret("count", low, high, TRUE, <<>>, ErrNone, r.val)
    /\ phase' = "done"
    /\ it' = NoIterator
    /\ yielded' = <<>>
    /\ UNCHANGED <<raw_keys, new_keys, options, bitmapVars>>

\* it.next() on the iterator the last lookup or lookup_or_greater returned
Next ==
    /\ phase = "done"
    /\ ret.op \in {"lookup", "lookup_or_greater"}
    /\ Len(yielded) < MaxNext
    /\ \E r \in {IteratorNext(it)} :
           /\ it' = r.it
           /\ yielded' = Append(yielded, [err |-> r.err, key |-> r.key])
    /\ UNCHANGED <<phase, raw_keys, new_keys, options, surf, ret, bitmapVars>>

\* the caller drops the result and the iterator
Drop ==
    /\ phase = "done"
    /\ phase' = "ready"
    /\ it' = NoIterator
    /\ ret' = NoRet
    /\ yielded' = <<>>
    /\ UNCHANGED <<raw_keys, new_keys, options, surf, bitmapVars>>

SurfNext ==
    \/ SurfNewCall
    \/ \E key \in QueryKeys(raw_keys) : Lookup(key)
    \/ \E key \in QueryKeys(raw_keys) : LookupOrGreater(key)
    \/ \E low \in RangeKeys(raw_keys), high \in RangeKeys(raw_keys) :
          RangeLookup(low, high)
    \/ \E low \in RangeKeys(raw_keys), high \in RangeKeys(raw_keys) :
          Count(low, high)
    \/ Next
    \/ Drop

Spec == Init /\ [][SurfNext]_vars

(***************************************************************************)
(* SpecBuild: Surf::new over any list of keys, in any order and with       *)
(* duplicates.                                                             *)
(***************************************************************************)
RECURSIVE ListsUpTo(_)
ListsUpTo(n) ==
    IF n = 0 THEN {<<>>}
    ELSE ListsUpTo(n - 1)
            \cup {Append(l, k) : l \in {m \in ListsUpTo(n - 1) : Len(m) = n - 1},
                                 k \in Keys}

InitBuild ==
    /\ phase = "new"
    /\ raw_keys \in ListsUpTo(MaxRawKeys)
    /\ new_keys = <<>>
    /\ options = OptionsNew
    /\ surf = NoSurf
    /\ it = NoIterator
    /\ ret = NoRet
    /\ yielded = <<>>
    /\ BitmapIdle

NextBuild == SurfNewCall

SpecBuild == InitBuild /\ [][NextBuild]_vars

(***************************************************************************)
(* SpecCursor: go_to_child (a pub fn) called by hand on the iterator that a *)
(* lookup returned.  ret holds the edge in low and the error returned.      *)
(***************************************************************************)
CursorEdges == Bytes \cup {1, 2, 66, 97, 102}

GoToChild(edge) ==
    /\ phase = "done"
    /\ ret.op \in {"lookup", "go_to_child"}
    /\ \E r \in {go_to_child(it, edge)} :
           /\ it' = r.it
           /\ ret' = Ret("go_to_child", <<edge>>, <<>>, r.err = ErrNone, <<>>,
                         r.err, 0)
    /\ UNCHANGED <<phase, raw_keys, new_keys, options, surf, yielded, bitmapVars>>

CursorNext ==
    \/ SurfNewCall
    \/ \E key \in QueryKeys(raw_keys) : Lookup(key)
    \/ \E edge \in CursorEdges : GoToChild(edge)
    \/ Drop

SpecCursor == Init /\ [][CursorNext]_vars

(***************************************************************************)
(* SpecMemory: Surf::new under options whose memory_limit the caller set    *)
(* (the field is pub): limits that give memory_unit 0, 1, 2 and 3, and the  *)
(* default.                                                                *)
(***************************************************************************)
MemoryLimits == {0, 512, 513, 1025, 1026, 1539, DefaultMemoryLimit}

InitMemory ==
    /\ phase = "new"
    /\ raw_keys \in RawKeyLists
    /\ new_keys = <<>>
    /\ options \in {[OptionsNew EXCEPT !.memory_limit = m] : m \in MemoryLimits}
    /\ surf = NoSurf
    /\ it = NoIterator
    /\ ret = NoRet
    /\ yielded = <<>>
    /\ BitmapIdle

NextMemory == SurfNewCall

SpecMemory == InitMemory /\ [][NextMemory]_vars

(***************************************************************************)
(* The index over keys longer than a node has edges.  next's for loop has  *)
(* at most NodeBits passes; below a chain of NodeBits nodes with the single *)
(* edge 0 the passes are all spent on descents.                            *)
(***************************************************************************)
Zeros(n) == [i \in 1 .. n |-> 0]

\* four distinct keys that truncate keeps whole: a chain of NodeBits + 2 zeros,
\* a key leaving it at the last node and two leaving it one node higher
DeepKeys ==
    << Zeros(NodeBits + 2),
       Append(Zeros(NodeBits + 1), 5),
       Append(Zeros(NodeBits), 1),
       Zeros(NodeBits) \o <<1, 7>> >>

\* the upper ends of the ranges asked: the short keys and the inserted ones
DeepHighKeys == Keys \cup {<<>>} \cup Range(DeepKeys)

InitDeep ==
    /\ phase = "new"
    /\ raw_keys = DeepKeys
    /\ new_keys = <<>>
    /\ options = OptionsNew
    /\ surf = NoSurf
    /\ it = NoIterator
    /\ ret = NoRet
    /\ yielded = <<>>
    /\ BitmapIdle

NextDeep ==
    \/ SurfNewCall
    \/ \E key \in QueryKeys(raw_keys) : Lookup(key)
    \/ \E key \in QueryKeys(raw_keys) : LookupOrGreater(key)
    \/ \E low \in QueryKeys(raw_keys), high \in DeepHighKeys :
          RangeLookup(low, high)
    \/ \E low \in QueryKeys(raw_keys), high \in DeepHighKeys :
          Count(low, high)
    \/ Next
    \/ Drop

SpecDeep == InitDeep /\ [][NextDeep]_vars

(***************************************************************************)
(* Claims about the bitmap                                                 *)
(***************************************************************************)
\* the bit of the words that holds index b: word b div 64, top-down position
\* b mod 64, which is the bit 2^(63 - b mod 64) of that word
StoredBit(b, i) == IF (63 - (i % 64)) \in b.data[(i \div 64) + 1] THEN 1 ELSE 0

\* C9: the bitmap refines the set of indices last set: every addressable bit
\* i holds 1 iff the last set/unset of i was a set, bit i lives in word
\* i div 64 at top-down position i mod 64, no word holds a bit outside 0..63,
\* and a get(i) with i < capacity returns that bit.
C9_BitmapRefinesSet ==
    /\ \A i \in 0 .. (bm.length - 1) :
          StoredBit(bm, i) = (IF i \in ones THEN 1 ELSE 0)
    /\ \A w \in 1 .. Len(bm.data) : bm.data[w] \subseteq U64Max
    /\ \A i \in ones : i < bm.length
    /\ (last.op = "get" /\ last.bit < bm.capacity) =>
          /\ last.err = NoErr
          /\ last.val = (IF last.bit \in ones THEN 1 ELSE 0)

\* C9 witness: get(127) has returned 1 on a bitmap grown to two words, where
\* bits 64 and 127 are set (the top and the bottom bit of word 1) and word 0
\* is empty
C9_Witness ==
    /\ last.op = "get" /\ last.bit = 127 /\ last.val = 1
    /\ 64 \in ones /\ 0 \notin ones
    /\ bm.data[1] = {} /\ bm.data[2] = {63, 0}

\* C10: a set, unset or get with b >= capacity fails with the out-of-bounds
\* error and changes neither capacity, length nor any word.
C10_OutOfBoundsLeavesBitmap ==
    [][(last'.op \in {"set", "unset", "get"} /\ last'.bit >= bm.capacity)
          => (last'.err = ErrInvalidIndex /\ bm' = bm)]_vars

\* C10 witness: an out-of-bounds set has failed on a bitmap that holds bits
C10_Witness ==
    /\ last.op = "set" /\ last.bit >= bm.capacity /\ last.err = ErrInvalidIndex
    /\ ones # {}

\* the number of positions 0..i of b that hold v
CountBits(b, v, i) == Cardinality({j \in 0 .. i : StoredBit(b, j) = v})

\* C11: for v in {0,1} and 0 <= i < length, rank(v, i) is the number of bits
\* equal to v in positions 0..i, so rank(v, i) + rank(1 - v, i) = i + 1.
C11_RankCountsInclusive ==
    (last.op = "rank" /\ last.v \in {0, 1} /\ last.bit < bm.length)
        => /\ last.err = NoErr
           /\ last.val = CountBits(bm, last.v, last.bit)
           /\ last.val + BitmapRank(bm, 1 - last.v, last.bit).val = last.bit + 1

\* C11 witness: rank(0, 65) has returned 64 on a bitmap of two words or more
\* in which bits 0 and 64 are set: a whole word and a masked one were counted
C11_Witness ==
    /\ last.op = "rank" /\ last.v = 0 /\ last.bit = 65 /\ last.val = 64
    /\ ones \cap (0 .. 65) = {0, 64}

\* C12: select(v, n) returns the position of the n-th bit of value v: if some
\* i < length holds v and rank(v, i) = n, then select(v, n) returns i.
C12_SelectInvertsRank ==
    (last.op = "select" /\ last.v \in {0, 1})
        => \A i \in 0 .. (bm.length - 1) :
              (StoredBit(bm, i) = last.v /\ CountBits(bm, last.v, i) = last.bit)
                  => (last.err = NoErr /\ last.val = i)

\* C13: length is a multiple of 64 and at most capacity, the number of words
\* is length / 64 and at most ceil(capacity / 64).
C13_BitmapSize ==
    /\ bm.length % 64 = 0
    /\ bm.length <= bm.capacity
    /\ Len(bm.data) * 64 = bm.length
    /\ Len(bm.data) <= (bm.capacity + 63) \div 64

(***************************************************************************)
(* Claims about the index and its queries                                  *)
(***************************************************************************)
\* the encoded keys: truncate(sort(S)), as a sequence and as a set
EncodedSeq == truncate(SortKeys(raw_keys))
Encoded == Range(EncodedSeq)

IsProperPrefix(p, k) == Len(p) < Len(k) /\ SubSeq(k, 1, Len(p)) = p

\* the encoded keys greater than k, and the smallest key of a set of keys
EncodedAbove(k) == {t \in Encoded : t # k /\ KeyLe(k, t)}
Smallest(S) == CHOOSE k \in S : \A o \in S : KeyLe(k, o)

\* the encoded keys that a point lookup of key matches: key itself, or a
\* proper prefix of key that no other encoded key extends
Matches(key) ==
    {t \in Encoded :
        \/ t = key
        \/ /\ IsProperPrefix(t, key)
           /\ \A o \in Encoded : ~IsProperPrefix(t, o)}

Returned(op) == phase = "done" /\ ret.op = op
\* op has returned over an index that holds at least one key
ReturnedOverKeys(op) == Returned(op) /\ raw_keys # <<>>

\* C1: after the index is built over truncate(sort(S)) for a set S of distinct
\* non-empty keys, a point lookup of an original, untruncated key of S
\* returns found.
C1_NoFalseNegativeLookup ==
    (Returned("lookup") /\ ret.low \in Range(raw_keys))
        => (ret.found /\ ret.err = ErrNone)

\* C1 witness: an original key of a set of several keys was found through a
\* proper prefix of it, the key it was truncated to
C1_Witness ==
    /\ Returned("lookup") /\ ret.low \in Range(raw_keys) /\ ret.found
    /\ Len(raw_keys) >= 2
    /\ IsProperPrefix(ret.key, ret.low)

\* C2: from a fresh cursor (the one a lookup of the empty key returns:
\* node_index 0, next_edge 0, empty stacks) the calls of next return the
\* encoded keys, each once and in ascending order, and then EndOfTrie.
C2_EnumerationInOrder ==
    (ReturnedOverKeys("lookup") /\ ret.low = <<>>)
        => \A j \in 1 .. Len(yielded) :
              yielded[j] = IF j <= Len(EncodedSeq)
                           THEN [err |-> ErrNone, key |-> EncodedSeq[j]]
                           ELSE [err |-> EndOfTrie, key |-> <<>>]

\* C3: when the point lookup of key misses, lookup_or_greater returns the
\* smallest encoded key greater than key, and EndOfTrie when there is none.
C3_SuccessorOnMiss ==
    (ReturnedOverKeys("lookup_or_greater") /\ ~SurfLookup(surf, ret.low).exists)
        => IF EncodedAbove(ret.low) = {}
           THEN ret.err = EndOfTrie
           ELSE ret.err = ErrNone /\ ret.key = Smallest(EncodedAbove(ret.low))

\* the key lookup_or_successor is to yield for low: the matched prefix on a
\* hit, the smallest encoded key above low on a miss (<<>> when there is none)
SuccessorOrMatch(low) ==
    IF SurfLookup(surf, low).exists THEN SurfLookup(surf, low).matched
    ELSE IF EncodedAbove(low) = {} THEN <<>>
    ELSE Smallest(EncodedAbove(low))

HasSuccessorOrMatch(low) ==
    SurfLookup(surf, low).exists \/ EncodedAbove(low) # {}

\* C4: count(lo, hi) is the number of keys <= hi among K0 = lookup_or_successor(lo)
\* and the encoded keys that follow it in order, and 0 when lookup_or_successor
\* ends with EndOfTrie.
C4_RangeCount ==
    ReturnedOverKeys("count")
        => ret.count =
              IF HasSuccessorOrMatch(ret.low)
              THEN Cardinality({t \in Encoded \cup {SuccessorOrMatch(ret.low)} :
                                  /\ KeyLe(SuccessorOrMatch(ret.low), t)
                                  /\ KeyLe(t, ret.high)})
              ELSE 0

\* C5: if an inserted key k has lo <= k <= hi, range_lookup(lo, hi) returns true.
\* It holds of every index over keys of at most MaxKeyLen bytes and fails over
\* DeepKeys: from the miss at <<0>> next spends its NodeBits passes descending
\* the chain, pops one node and leaves it by edge 1, above Zeros(NodeBits + 2).
C5_NoFalseNegativeRange ==
    (Returned("range_lookup")
        /\ \E k \in Range(raw_keys) : KeyLe(ret.low, k) /\ KeyLe(k, ret.high))
        => ret.found

\* C6: range_lookup(lo, hi) returns K <= hi for K the matched prefix of lo on
\* a hit and the smallest encoded key greater than lo on a miss; so it
\* returns false when lo misses and that key exists and is greater than hi.
C6_RangeIsSuccessorLeHigh ==
    (ReturnedOverKeys("range_lookup") /\ HasSuccessorOrMatch(ret.low))
        => ret.found = KeyLe(SuccessorOrMatch(ret.low), ret.high)

\* C7: lookup(key) returns found exactly when an encoded key T equals key or
\* is a proper prefix of key that no other encoded key extends, and the
\* matched prefix is then T; otherwise it returns absent, with no error.
C7_LookupFoundIffMatch ==
    Returned("lookup")
        => /\ ret.err = ErrNone
           /\ ret.found <=> Matches(ret.low) # {}
           /\ ret.found => Matches(ret.low) = {ret.key}
           /\ ~ret.found => ret.key = <<>>
           /\ (raw_keys = TestLookupKeys /\ ret.low \in {<<0, 2>>, <<67>>})
                 => ~ret.found

\* C7 witness: [0x00, 0x02] is looked up over the keys of test_lookup and is
\* absent, although the index holds a key that starts with the same byte
C7_Witness ==
    /\ Returned("lookup") /\ raw_keys = TestLookupKeys
    /\ ret.low = <<0, 2>> /\ ~ret.found

\* the list of the distinct keys of a sorted list
RECURSIVE Dedup(_)
Dedup(keys) ==
    IF Len(keys) <= 1 THEN keys
    ELSE IF keys[1] = keys[2] THEN Dedup(Tail(keys))
    ELSE <<keys[1]>> \o Dedup(Tail(keys))

\* C8: Surf::new over any list of keys gives the same three bitmaps as over
\* the sorted list of its distinct keys.
C8_BuildNormalisesInput ==
    phase = "ready" => surf = SurfNew(Dedup(SortKeys(raw_keys)), options).surf

(***************************************************************************)
(* Claims about truncate                                                   *)
(***************************************************************************)
IsPrefixOf(p, k) == Len(p) <= Len(k) /\ SubSeq(k, 1, Len(p)) = p

\* the sorted list truncate was given, once Surf::new has run
Truncated == phase \in {"ready", "done"}
SortedKeys == SortKeys(raw_keys)

\* C14: over distinct sorted keys truncate returns as many keys, each a
\* non-empty prefix of its input, pairwise distinct, and one output is a
\* prefix of another only if its input is a strict prefix of the other's.
C14_TruncationLaws ==
    Truncated
        => /\ Len(new_keys) = Len(SortedKeys)
           /\ \A i \in 1 .. Len(new_keys) :
                 /\ new_keys[i] # <<>>
                 /\ IsPrefixOf(new_keys[i], SortedKeys[i])
           /\ \A i, j \in 1 .. Len(new_keys) :
                 i # j => /\ new_keys[i] # new_keys[j]
                          /\ IsPrefixOf(new_keys[i], new_keys[j])
                                => IsProperPrefix(SortedKeys[i], SortedKeys[j])

\* C14 witness: three keys or more were truncated, one was shortened and
\* one output is a prefix of another
C14_Witness ==
    /\ Truncated /\ Len(new_keys) >= 3
    /\ \E i \in 1 .. Len(new_keys) : Len(new_keys[i]) < Len(SortedKeys[i])
    /\ \E i, j \in 1 .. Len(new_keys) :
          i # j /\ IsPrefixOf(new_keys[i], new_keys[j])

\* the length of the longest common prefix of a and b
CommonPrefixLen(a, b) ==
    CHOOSE n \in 0 .. Min(Len(a), Len(b)) :
        /\ SubSeq(a, 1, n) = SubSeq(b, 1, n)
        /\ n = Min(Len(a), Len(b)) \/ a[n + 1] # b[n + 1]

\* the keys next to SortedKeys[i]
Neighbours(i) ==
    {SortedKeys[j] : j \in {i - 1, i + 1} \cap (1 .. Len(SortedKeys))}

\* the larger of the first-difference indices of SortedKeys[i] with its
\* neighbours, 0 without neighbours
LargerDifference(i) ==
    IF Neighbours(i) = {} THEN 0
    ELSE CHOOSE n \in {CommonPrefixLen(SortedKeys[i], o) : o \in Neighbours(i)} :
            \A o \in Neighbours(i) : CommonPrefixLen(SortedKeys[i], o) <= n

\* the non-empty prefixes of SortedKeys[i] that are a prefix of no neighbour
Distinguishing(i) ==
    {n \in 1 .. Len(SortedKeys[i]) :
        \A o \in Neighbours(i) : ~IsPrefixOf(SubSeq(SortedKeys[i], 1, n), o)}

\* C15: over distinct sorted keys, the output for a key is its shortest prefix
\* that distinguishes it from the key before and the key after: the first
\* n + 1 bytes, n the larger first-difference index, when n < len, and the
\* whole key otherwise; "far", "fast", "john" become "far", "fas", "j".
C15_TruncationMinimal ==
    Truncated
        => /\ \A i \in 1 .. Len(SortedKeys) :
                 /\ new_keys[i] =
                       SubSeq(SortedKeys[i], 1,
                              IF LargerDifference(i) < Len(SortedKeys[i])
                              THEN LargerDifference(i) + 1
                              ELSE Len(SortedKeys[i]))
                 /\ Len(new_keys[i]) =
                       IF Distinguishing(i) = {} THEN Len(SortedKeys[i])
                       ELSE CHOOSE n \in Distinguishing(i) :
                               \A m \in Distinguishing(i) : n <= m
           /\ raw_keys = TruncateKeys
                 => new_keys = << <<102, 97, 114>>, <<102, 97, 115>>, <<106>> >>

\* C15 witness: "far", "fast", "john" were truncated, "fast" to three bytes
C15_Witness ==
    /\ Truncated /\ raw_keys = TruncateKeys
    /\ new_keys[2] = <<102, 97, 115>>

(***************************************************************************)
(* Claims about the built bitmaps.  The trie of the keys Builder::build    *)
(* was given is described by the paths of its nodes: a node is a proper    *)
(* prefix of a key, its edges the bytes that follow it in the keys.        *)
(***************************************************************************)
\* the positions that hold 1 in bitmap b
SetBits(b) ==
    UNION {{64 * (w - 1) + (63 - e) : e \in b.data[w]} : w \in 1 .. Len(b.data)}
        \cap (0 .. (b.length - 1))

BuiltKeys == Range(new_keys)
\* the nodes with at least one edge, the edges of a node, the edges some key
\* continues past, and the nodes a key ends at
TrieNodes == UNION {{SubSeq(k, 1, n) : n \in 0 .. (Len(k) - 1)} : k \in BuiltKeys}
TrieEdges(p) == {k[Len(p) + 1] : k \in {o \in BuiltKeys : IsProperPrefix(p, o)}}
TrieChildEdges(p) == {e \in TrieEdges(p) : Append(p, e) \in TrieNodes}
TriePrefixKeys == TrieNodes \cap BuiltKeys

\* the id of the node at path p found the way go_to_child finds it: the rank
\* of the HasChild bit of each edge of the path
RECURSIVE RankId(_)
RankId(p) ==
    IF p = <<>> THEN 0
    ELSE BitmapRank(surf.dense_has_child, 1,
                    256 * RankId(SubSeq(p, 1, Len(p) - 1)) + p[Len(p)]).val

\* C16: after build, a set Labels bit at offset o = 256 * n + b is edge b of
\* the trie node whose id by rank is n; if HasChild[o] is set the edges of the
\* node with id rank1(HasChild, o) are those of the child over b, otherwise a
\* key ends with edge b; the ids are 0 .. nodes - 1, none spent on a task
\* without keys.
C16_ChildIdInvariant ==
    Truncated
        => /\ \A o \in SetBits(surf.dense_labels) :
                 \E p \in TrieNodes :
                    /\ RankId(p) = o \div 256
                    /\ (o % 256) \in TrieEdges(p)
                    /\ IF o \in SetBits(surf.dense_has_child)
                       THEN /\ Append(p, o % 256) \in TrieNodes
                            /\ {l - 256 * BitmapRank(surf.dense_has_child, 1, o).val :
                                  l \in {m \in SetBits(surf.dense_labels) :
                                           m \div 256 =
                                             BitmapRank(surf.dense_has_child, 1, o).val}}
                                  = TrieEdges(Append(p, o % 256))
                       ELSE Append(p, o % 256) \in BuiltKeys
           /\ \A p \in TrieNodes : \A e \in TrieEdges(p) :
                 (256 * RankId(p) + e) \in SetBits(surf.dense_labels)
           /\ {RankId(p) : p \in TrieNodes} = 0 .. (Cardinality(TrieNodes) - 1)

\* C16 witness: build has numbered a node below an edge that follows a leaf
\* edge of the same node, whose task had no keys
C16_Witness ==
    /\ Truncated /\ Cardinality(TrieNodes) >= 2
    /\ \E p \in TrieNodes : \E e, f \in TrieEdges(p) :
          e < f /\ e \notin TrieChildEdges(p) /\ f \in TrieChildEdges(p)

\* the breadth-first number of the node at path p: the nodes of lesser depth
\* come first, then those of the same depth with a lesser path
LevelId(p) ==
    Cardinality({q \in TrieNodes :
                   Len(q) < Len(p) \/ (Len(q) = Len(p) /\ less(q, p))})

\* C17: the bitmaps are the level-order encoding of the trie: Labels holds
\* exactly the edges of every node, HasChild exactly the edges some key
\* continues past, IsPrefixKey exactly the nodes a key ends at, each node at
\* its breadth-first id; the two-level test gives three nodes with
\* IsPrefixKey set at bit 2 only, the five one-byte keys one node with
\* HasChild and IsPrefixKey all zero.
C17_LevelOrderEncoding ==
    Truncated
        => /\ SetBits(surf.dense_labels)
                 = UNION {{256 * LevelId(p) + e : e \in TrieEdges(p)} :
                            p \in TrieNodes}
           /\ SetBits(surf.dense_has_child)
                 = UNION {{256 * LevelId(p) + e : e \in TrieChildEdges(p)} :
                            p \in TrieNodes}
           /\ SetBits(surf.dense_is_prefix_key)
                 = {LevelId(p) : p \in TriePrefixKeys}
           /\ raw_keys = TwoLevelKeys
                 => /\ surf.dense_labels.length = 3 * 256
                    /\ SetBits(surf.dense_is_prefix_key) = {2}
           /\ raw_keys = OneLevelKeys
                 => /\ surf.dense_labels.length = 256
                    /\ SetBits(surf.dense_labels) = {0, 23, 66, 96, 249}
                    /\ SetBits(surf.dense_has_child) = {}
                    /\ SetBits(surf.dense_is_prefix_key) = {}

\* C17 witness: the two-level test was built: three nodes, the third a prefix key
C17_Witness ==
    /\ Truncated /\ raw_keys = TwoLevelKeys
    /\ Cardinality(TrieNodes) = 3
    /\ SetBits(surf.dense_is_prefix_key) = {2}

(***************************************************************************)
(* Claims about the results of the queries.                                *)
(***************************************************************************)
\* C18: no result of lookup, lookup_or_greater, range_lookup, count or next
\* over an index that holds keys carries NoSuchEdge or IsLeaf as its error;
\* next ends only with a key or EndOfTrie.
C18_ControlSignalsNotSurfaced ==
    (phase = "done" /\ raw_keys # <<>>)
        => /\ ret.err \notin {NoSuchEdge, IsLeaf}
           /\ \A j \in 1 .. Len(yielded) :
                 yielded[j].err \in {ErrNone, EndOfTrie}

\* C19: after lookup_or_greater(key) hits with matched prefix M, the first
\* next on the returned iterator yields the smallest encoded key greater than
\* M, or EndOfTrie when M is the largest encoded key.
C19_NextAfterHit ==
    (/\ ReturnedOverKeys("lookup_or_greater")
     /\ SurfLookup(surf, ret.low).exists
     /\ Len(yielded) >= 1)
        => yielded[1] = IF EncodedAbove(ret.key) = {}
                        THEN [err |-> EndOfTrie, key |-> <<>>]
                        ELSE [err |-> ErrNone,
                              key |-> Smallest(EncodedAbove(ret.key))]

\* the iterator holds copies of the three bitmaps of the index
CopiesOf(i, s) ==
    /\ i.labels = s.dense_labels
    /\ i.has_child = s.dense_has_child
    /\ i.is_prefix_key = s.dense_is_prefix_key

\* C20: after build, no lookup, lookup_or_greater, range_lookup, count or next
\* changes the length or a word of the three bitmaps of the index, nor of the
\* copies an iterator holds: no get of a query grows a bitmap.
C20_QueriesKeepIndex ==
    [][(phase # "new")
          => (surf' = surf /\ (it' # NoIterator => CopiesOf(it', surf)))]_vars

\* C20 witness: a lookup walked to a node below the root and read its last
\* edge, and next ran on the iterator it returned
C20_Witness ==
    /\ Returned("lookup") /\ Len(ret.low) >= 2
    /\ it.node_index >= 1 /\ it.next_edge = 255
    /\ Len(yielded) >= 1
    /\ CopiesOf(it, surf)

(***************************************************************************)
(* Claims about the limits of build                                        *)
(***************************************************************************)
\* memory_unit of Builder::new for the options of the call
MemoryUnit == options.memory_limit \div 513

\* C21: Surf::new fails with the error of the bitmap's bounds check when the
\* trie of the keys has more nodes than memory_unit = memory_limit div 513
\* and succeeds otherwise; on failure it returns the error and no index.
C21_BuildOutOfMemory ==
    (phase # "new" /\ ret.op = "new")
        => IF Cardinality(TrieNodes) > MemoryUnit
           THEN /\ phase = "failed"
                /\ ret.err = CustomError(ErrInvalidIndex)
                /\ surf = NoSurf
           ELSE /\ phase = "ready"
                /\ ret.err = ErrNone

\* C21 witness: a build of two nodes or more failed for lack of one node
C21_Witness ==
    /\ phase = "failed" /\ ret.op = "new"
    /\ MemoryUnit >= 1
    /\ Cardinality(TrieNodes) = MemoryUnit + 1

(***************************************************************************)
(* Claims about auto-grow and select                                       *)
(***************************************************************************)
\* a get or unset of a bit with length <= bit < capacity is the step taken
GrowingCall == /\ last'.op \in {"get", "unset"}
               /\ bm.length <= last'.bit
               /\ last'.bit < bm.capacity

\* what that step leaves behind
GrownBy(bit) ==
    /\ last'.err = NoErr
    /\ last'.val = 0
    /\ bm'.length = ((bit + 64) \div 64) * 64
    /\ bm'.capacity = bm.capacity
    /\ \A i \in 0 .. (bm.length - 1) : StoredBit(bm', i) = StoredBit(bm, i)
    /\ \A i \in bm.length .. (bm'.length - 1) : StoredBit(bm', i) = 0
    /\ BitmapGet(bm', bit) = [b |-> bm', err |-> NoErr, val |-> 0]

\* C22: a get(b) or unset(b) with length <= b < capacity succeeds (get
\* returns 0), sets length to ceil((b + 1) / 64) * 64, keeps every bit that
\* was addressable and leaves every new bit 0, so a later get(b) returns 0;
\* no call makes length smaller.
C22_AutoGrow ==
    [][/\ bm'.length >= bm.length
       /\ GrowingCall => GrownBy(last'.bit)]_vars

\* C22 witness: a get has read a bit of the last word of a bitmap of two
\* words or more, beyond every bit that was set
C22_Witness ==
    /\ last.op = "get" /\ last.err = NoErr
    /\ last.bit >= 64 /\ last.bit \div 64 = Len(bm.data) - 1
    /\ ones # {} /\ \A i \in ones : i < 64

\* C23: select(v, n) fails with the not-found error exactly when fewer than n
\* bits of value v exist (v in {0,1}, 1 <= n <= length) and otherwise returns
\* a position; it fails with the count error when n = 0, with the value error
\* when v is not 0 or 1, and never with the out-of-bounds error.
C23_SelectErrors ==
    (last.op = "select")
        => /\ last.err # ErrInvalidIndex
           /\ last.v \notin {0, 1} => last.err = ErrInvalidVal
           /\ (last.v \in {0, 1} /\ last.bit = 0) => last.err = ErrInvalidNth
           /\ (last.v \in {0, 1} /\ 1 <= last.bit /\ last.bit <= bm.length)
                 => IF CountBits(bm, last.v, bm.length - 1) < last.bit
                    THEN last.err = ErrNotFound
                    ELSE last.err = NoErr /\ last.val < bm.length

(***************************************************************************)
(* Claims about the cursor                                                 *)
(***************************************************************************)
\* the step is go_to_child(edge) on the iterator it
Descends(edge) == ret'.op = "go_to_child" /\ ret'.low = <<edge>>

\* what go_to_child(edge) is to return and leave, read off the bitmaps of it
DescendResult(edge) ==
    LET o == 256 * it.node_index + edge
    IN  /\ ret'.err = NoSuchEdge <=> StoredBit(it.labels, o) = 0
        /\ ret'.err = IsLeaf
              <=> (StoredBit(it.labels, o) = 1 /\ StoredBit(it.has_child, o) = 0)
        /\ ret'.err \in {NoSuchEdge, IsLeaf, ErrNone}
        /\ ret'.err = ErrNone
              => /\ it'.nodes = Append(it.nodes, it.node_index)
                 /\ it'.edges = Append(it.edges, edge)
                 /\ it'.key_prefix = Append(it.key_prefix, edge)
                 /\ it'.node_index = CountBits(it.has_child, 1, o)
                 /\ it'.next_edge = 0
        /\ ret'.err \in {NoSuchEdge, IsLeaf}
              => /\ it'.node_index = it.node_index
                 /\ it'.nodes = it.nodes
                 /\ it'.edges = it.edges
                 /\ it'.key_prefix = it.key_prefix

\* C24: go_to_child(edge) at node n, o = 256 * n + edge, returns NoSuchEdge
\* iff Labels[o] = 0 and IsLeaf iff Labels[o] = 1 and HasChild[o] = 0;
\* otherwise it returns Ok, pushes n, edge and edge onto nodes, edges and
\* key_prefix, and sets node_index to the count of set HasChild bits in
\* 0..o and next_edge to 0.  NoSuchEdge and IsLeaf leave node_index and the
\* three stacks as they were.
C24_Descend ==
    [][\A edge \in CursorEdges : Descends(edge) => DescendResult(edge)]_vars

\* C24 witness: go_to_child descended from a node below the root (two nodes
\* are stacked) and reached a node numbered 2 or more
C24_Witness ==
    /\ ret.op = "go_to_child" /\ ret.err = ErrNone
    /\ Len(it.nodes) >= 2
    /\ it.node_index >= 2

\* the iterator a lookup or lookup_or_greater returned, as next has left it
HasCursor == phase = "done" /\ ret.op \in {"lookup", "lookup_or_greater"}

\* C25: in every state of an iterator reached through lookup,
\* lookup_or_greater and next, the stacks nodes, edges and key_prefix have the
\* same length, at most the greatest length of the inserted keys, key_prefix
\* holds the bytes of edges, and node_index is 0 exactly when the stacks are
\* empty; next never pops an empty stack.
C25_CursorStacks ==
    HasCursor
        => /\ Len(it.nodes) = Len(it.edges)
           /\ Len(it.key_prefix) = Len(it.edges)
           /\ Len(it.nodes) <= max_key_length(raw_keys)
           /\ \A j \in 1 .. Len(it.edges) : it.key_prefix[j] = it.edges[j]
           /\ it.node_index = 0 <=> it.nodes = <<>>
           /\ \A j \in 1 .. Len(yielded) : yielded[j].err # Panic

\* C25 witness: lookup_or_greater hit a key of two bytes, below the root, and
\* next has gone back up to the root
C25_Witness ==
    /\ Returned("lookup_or_greater") /\ Len(ret.key) = 2
    /\ Len(yielded) >= 1
    /\ it.nodes = <<>> /\ it.node_index = 0

(***************************************************************************)
(* Claims about the empty key list                                         *)
(***************************************************************************)
\* the builder Surf::new leaves behind for the keys of the call
BuiltBuilder == BuilderBuild(BuilderNew(options.memory_limit), new_keys)

\* C26: Surf::new over zero keys succeeds, numbers no node, leaves no bit set
\* in Labels, HasChild and IsPrefixKey, and every lookup on the index it
\* returns answers absent.
C26_EmptyKeyList ==
    (raw_keys = <<>> /\ phase # "new")
        => /\ phase \in {"ready", "done"}
           /\ new_keys = <<>>
           /\ BuiltBuilder.err = NoErr
           /\ BuiltBuilder.current_node_id = 0
           /\ SetBits(surf.dense_labels) = {}
           /\ SetBits(surf.dense_has_child) = {}
           /\ SetBits(surf.dense_is_prefix_key) = {}
           /\ Returned("lookup") => (~ret.found /\ ret.err = ErrNone)

\* C26 witness: a key of one byte or more was looked up in the index built
\* over zero keys
C26_Witness ==
    /\ raw_keys = <<>> /\ Returned("lookup")
    /\ ret.low # <<>> /\ ~ret.found

\* the errors next can return: the cursor's own and those of the bitmaps
NextErrors == {EndOfTrie, NoSuchEdge, IsLeaf, CustomError(ErrInvalidIndex)}

\* C27: from every state of an iterator over a built index (as lookup or
\* lookup_or_greater returned it, hit or miss, and after every next, the end
\* of the trie included) next returns: a key, EndOfTrie or an error; after it
\* has returned EndOfTrie every later next returns EndOfTrie.
C27_NextTerminates ==
    HasCursor
        => /\ IteratorNext(it).err \in {ErrNone} \cup NextErrors
           /\ \A j \in 1 .. Len(yielded) :
                 /\ yielded[j].err \in {ErrNone} \cup NextErrors
                 /\ (j > 1 /\ yielded[j - 1].err = EndOfTrie)
                       => yielded[j].err = EndOfTrie
           /\ (yielded # <<>> /\ yielded[Len(yielded)].err = EndOfTrie)
                 => IteratorNext(it).err = EndOfTrie

\* C27 witness: next returned EndOfTrie on an index that holds keys, and was
\* called again
C27_Witness ==
    /\ HasCursor /\ raw_keys # <<>>
    /\ Len(yielded) >= 2
    /\ yielded[1].err = EndOfTrie
    /\ yielded[2].err = EndOfTrie

(***************************************************************************)
(* Claims about the counts of the built bitmaps                            *)
(***************************************************************************)
\* the edges no key continues past
LeafEdges == SetBits(surf.dense_labels) \ SetBits(surf.dense_has_child)

\* C28: after build over distinct sorted truncated keys every set HasChild
\* bit has its Labels bit set, a non-empty key list gives 1 + popcount of
\* HasChild nodes, and the leaf edges plus the set IsPrefixKey bits are as
\* many as the keys.
C28_KeyAccounting ==
    Truncated
        => /\ SetBits(surf.dense_has_child) \subseteq SetBits(surf.dense_labels)
           /\ new_keys # <<>>
                 => BuiltBuilder.current_node_id
                       = 1 + Cardinality(SetBits(surf.dense_has_child))
           /\ Cardinality(LeafEdges)
                 + Cardinality(SetBits(surf.dense_is_prefix_key))
                 = Len(new_keys)

\* C28 witness: an index with child edges, leaf edges and a prefix key
C28_Witness ==
    /\ Truncated
    /\ SetBits(surf.dense_has_child) # {}
    /\ LeafEdges # {}
    /\ SetBits(surf.dense_is_prefix_key) # {}
    /\ Len(new_keys) >= 3

(***************************************************************************)
(* Claims about the mask functions                                         *)
(***************************************************************************)
\* the top n and the bottom n bits of a word
TopBits(n) == {e \in U64Max : e >= 64 - n}
BottomBits(n) == {e \in U64Max : e < n}
\* the amounts the functions shift by: 64 - n after the clamp, idx after it
MaskShift(n) == 64 - Clamp(n, 0, 64)
SingleShift(idx) == Clamp(idx, 0, 63)

\* C29: leading_ones_mask(n) has exactly the top min(n, 64) bits set and
\* trailing_ones_mask(n) exactly the bottom min(n, 64) bits (none for n = 0,
\* all for n >= 64); ones_mask(l, t) is their bitwise OR;
\* single_one_mask(idx) has only the bit at top-down position min(idx, 63)
\* set; every shift is by less than 64.
C29_Masks ==
    /\ last.op = "leading_ones_mask"
          => /\ word = TopBits(Min(last.bit, 64))
             /\ Cardinality(word) = Min(last.bit, 64)
             /\ last.bit # 0 => MaskShift(last.bit) \in 0 .. 63
    /\ last.op = "trailing_ones_mask"
          => /\ word = BottomBits(Min(last.bit, 64))
             /\ Cardinality(word) = Min(last.bit, 64)
             /\ last.bit # 0 => MaskShift(last.bit) \in 0 .. 63
    /\ last.op = "ones_mask"
          => word = TopBits(Min(last.bit, 64)) \cup BottomBits(Min(last.v, 64))
    /\ last.op = "single_one_mask"
          => /\ word = {63 - Min(last.bit, 63)}
             /\ SingleShift(last.bit) \in 0 .. 63

\* C29 witness: leading_ones_mask(70) gave all ones, as test_leading_ones_mask
\* expects
C29_Witness ==
    /\ last.op = "leading_ones_mask" /\ last.bit = 70
    /\ word = U64Max

=============================================================================
